---- MODULE Spec2Model ----
(***************************************************************************)
(* Model of the crawl_urls() table function of the DuckDB crawler          *)
(* extension: CrawlerBind, CrawlerInitGlobal, CrawlerFunction and the      *)
(* SIGINT handler.                                                         *)
(*                                                                         *)
(* Time is the steady clock in milliseconds.  Computation is instantaneous;*)
(* the clock advances only while the handler is blocked (HTTP I/O and the  *)
(* crawl-delay sleep).  Delays are held in milliseconds (seconds * 1000),  *)
(* every delay of the model being a whole number of milliseconds.          *)
(* Strings that the code parses (URLs, robots paths) are sequences of      *)
(* one-character strings.  A std::optional, and a named parameter that may *)
(* be absent, is <<>> (empty) or <<v>>.                                    *)
(***************************************************************************)
EXTENDS Integers, Sequences, FiniteSets, TLC

----------------------------------------------------------------------------
\* Bounds of the model
MaxUrls == 2
MaxSigints == 3
FetchMs == 200
SlowMs == 12000
RetryAfterS == 2
BootMs == 100000

\* Program constants
BuiltinDefaultDelay == 1000
BuiltinMaxDelay == 60000
BuiltinTimeout == 30
InitialDomainDelay == 1000
RobotsMaxRetries == 2
PageMaxRetries == 3
DefaultMaxRetries == 5
InitialBackoffMs == 100
BackoffMultiplier == 2
MaxBackoffMs == 30000
ForceExitWindow == 3
MaxThreads == 1
MaxParallelPerDomain == 8
MaxTotalConnections == 32
MaxRetryBackoffSeconds == 600

None == <<>>
Some(v) == <<v>>
Null == "NULL"
NPos == 0

Threads == 1..MaxThreads

Max2(a, b) == IF a >= b THEN a ELSE b
Min2(a, b) == IF a <= b THEN a ELSE b

----------------------------------------------------------------------------
\* Strings

\* std::string::find(ch, from): first position >= from holding ch, or NPos
\* (positions are 1-based)
FindChar(s, ch, from) ==
  LET hits == {i \in from..Len(s) : s[i] = ch}
  IN IF hits = {} THEN NPos ELSE CHOOSE i \in hits : \A j \in hits : i <= j

\* url.find("://")
FindProto(s) ==
  LET hits == {i \in 1..(Len(s) - 2) : s[i] = ":" /\ s[i+1] = "/" /\ s[i+2] = "/"}
  IN IF hits = {} THEN NPos ELSE CHOOSE i \in hits : \A j \in hits : i <= j

ExtractDomain(url) ==
  LET proto_end == FindProto(url) IN
  IF proto_end = NPos THEN <<>>
  ELSE LET domain_start == proto_end + 3
           slash == FindChar(url, "/", domain_start)
           domain_end == IF slash = NPos THEN Len(url) + 1 ELSE slash
           domain == SubSeq(url, domain_start, domain_end - 1)
           port_pos == FindChar(domain, ":", 1)
       IN IF port_pos # NPos THEN SubSeq(domain, 1, port_pos - 1) ELSE domain

ExtractPath(url) ==
  LET proto_end == FindProto(url) IN
  IF proto_end = NPos THEN <<"/">>
  ELSE LET path_start == FindChar(url, "/", proto_end + 3)
       IN IF path_start = NPos THEN <<"/">> ELSE SubSeq(url, path_start, Len(url))

\* The URLs a caller may list: two paths of host a, and host b with a port
\* and no path.
UrlAP == <<"s", ":", "/", "/", "a", "/", "p">>
UrlAX == <<"s", ":", "/", "/", "a", "/", "x">>
UrlB  == <<"s", ":", "/", "/", "b", ":", "8">>
UrlUniverse == {UrlAP, UrlAX, UrlB}

UrlLists == UNION {[1..n -> UrlUniverse] : n \in 0..MaxUrls}

\* One page of one host written three ways: as it is, with the host in
\* upper case, and with a port.
UrlUpperAP == <<"s", ":", "/", "/", "A", "/", "p">>
UrlPortAP == <<"s", ":", "/", "/", "a", ":", "8", "/", "p">>
HostUrls == {UrlAP, UrlUpperAP, UrlPortAP}
HostUrlLists == UNION {[1..n -> HostUrls] : n \in 0..MaxUrls}

----------------------------------------------------------------------------
\* robots.txt

\* RobotsRules{} : no crawl delay, no rule
EmptyRules == [crawl_delay |-> None, disallow |-> {}, allow |-> {}]

\* What RobotsParser::Parse + GetRulesForUserAgent yield for the robots.txt
\* bodies a server may return
RulesX == [crawl_delay |-> Some(3000), disallow |-> {<<"/", "x">>}, allow |-> {}]
RulesOnlyP == [crawl_delay |-> None, disallow |-> {<<"/">>}, allow |-> {<<"/", "p">>}]
RobotsFiles == {RulesX, RulesOnlyP}

IsPrefix(p, s) == Len(p) <= Len(s) /\ SubSeq(s, 1, Len(p)) = p

\* length of the longest pattern of pats that is a prefix of path, -1 if none
LongestMatch(pats, path) ==
  LET lens == {Len(p) : p \in {q \in pats : IsPrefix(q, path)}}
  IN IF lens = {} THEN -1 ELSE CHOOSE n \in lens : \A m \in lens : n >= m

\* RobotsParser::IsAllowed: the longest matching rule wins, Allow wins a tie,
\* no matching rule allows
IsAllowed(rules, path) ==
  LET a == LongestMatch(rules.allow, path)
      d == LongestMatch(rules.disallow, path)
  IN d = -1 \/ a >= d

----------------------------------------------------------------------------
\* HTTP client

\* min(initial_backoff_ms * backoff_multiplier^(k-1), max_backoff_ms): the
\* pause after the k-th failed attempt
RECURSIVE Backoff(_)
Backoff(k) ==
  IF k <= 1 THEN Min2(InitialBackoffMs, MaxBackoffMs)
  ELSE Min2(Backoff(k - 1) * BackoffMultiplier, MaxBackoffMs)

RECURSIVE BackoffSum(_)
BackoffSum(k) == IF k <= 0 THEN 0 ELSE BackoffSum(k - 1) + Backoff(k)

\* How the server of a URL behaves for one Fetch call
PageBehaviours == {"ok", "flaky", "down"}

\* further behaviours, exercised by HttpSpec
HttpBehaviours == PageBehaviours \cup {"slow", "limited"}

\* HttpClient::Fetch: attempts are repeated after a retryable failure, at
\* most max_retries times. latency is the time one attempt takes, and
\* retry_after the seconds of the Retry-After header of the failed attempts
\* (0: no such header).
\*   ok: 200 at once; flaky: one 503, then 200; down: 503 on every attempt;
\*   notfound: 404 at once; slow: 200 after SlowMs;
\*   limited: one 429 with Retry-After, then 200
FetchResponse(behaviour, max_retries) ==
  CASE behaviour = "ok" ->
         [success |-> TRUE, status_code |-> 200, body |-> "html",
          content_type |-> "text/html", error |-> "", attempts |-> 1,
          latency |-> FetchMs, retry_after |-> 0]
    [] behaviour = "flaky" ->
         [success |-> TRUE, status_code |-> 200, body |-> "html",
          content_type |-> "text/html", error |-> "",
          attempts |-> Min2(2, max_retries + 1),
          latency |-> FetchMs, retry_after |-> 0]
    [] behaviour = "notfound" ->
         [success |-> FALSE, status_code |-> 404, body |-> "",
          content_type |-> "", error |-> "HTTP 404", attempts |-> 1,
          latency |-> FetchMs, retry_after |-> 0]
    [] behaviour = "slow" ->
         [success |-> TRUE, status_code |-> 200, body |-> "html",
          content_type |-> "text/html", error |-> "", attempts |-> 1,
          latency |-> SlowMs, retry_after |-> 0]
    [] behaviour = "limited" ->
         [success |-> TRUE, status_code |-> 200, body |-> "html",
          content_type |-> "text/html", error |-> "",
          attempts |-> Min2(2, max_retries + 1),
          latency |-> FetchMs, retry_after |-> RetryAfterS]
    [] OTHER ->
         [success |-> FALSE, status_code |-> 503, body |-> "",
          content_type |-> "", error |-> "HTTP 503",
          attempts |-> max_retries + 1,
          latency |-> FetchMs, retry_after |-> 0]

\* the pause after the k-th failed attempt when the count of failures
\* starts one step up
Pause_TierNotReset(resp, k) == Backoff(k + 1)

\* the pause after the k-th failed attempt when Retry-After is not read
Pause_IgnoresRetryAfter(resp, k) == Backoff(k)

\* the pause after the k-th failed attempt: the Retry-After of the response
\* when it has one, else the backoff of RetryConfig
Pause(resp, k) ==
  IF resp.retry_after > 0 THEN resp.retry_after * 1000 ELSE Backoff(k)

RECURSIVE PauseSum(_, _)
PauseSum(resp, k) == IF k <= 0 THEN 0 ELSE PauseSum(resp, k - 1) + Pause(resp, k)

\* time from the start of the first attempt to the end of the last
FetchElapsed(resp) == resp.attempts * resp.latency + PauseSum(resp, resp.attempts - 1)

\* start and end of attempt k of a Fetch call begun at t0
AttemptStart(resp, t0, k) == t0 + (k - 1) * resp.latency + PauseSum(resp, k - 1)
AttemptEnd(resp, t0, k) == AttemptStart(resp, t0, k) + resp.latency

----------------------------------------------------------------------------
\* Named parameters of crawl_urls(): the values a call may pass
DelayArgs == {None, Some(0), Some(2000)}
MinDelayArgs == {None, Some(1500)}
MaxDelayArgs == {None, Some(1800)}
BoolArgs == {None, Some(TRUE), Some(FALSE)}

\* The calls: any mix of the three delays, any mix of the two flags, and the
\* call without user_agent
ArgSets ==
  [user_agent : {Some("bot")},
   default_crawl_delay : DelayArgs,
   min_crawl_delay : MinDelayArgs,
   max_crawl_delay : MaxDelayArgs,
   timeout_seconds : {None},
   respect_robots_txt : {None},
   log_skipped : {None}]
  \cup
  [user_agent : {Some("bot")},
   default_crawl_delay : {None},
   min_crawl_delay : {None},
   max_crawl_delay : {None},
   timeout_seconds : {None},
   respect_robots_txt : BoolArgs,
   log_skipped : BoolArgs]
  \cup
  [user_agent : {None},
   default_crawl_delay : {None},
   min_crawl_delay : {None},
   max_crawl_delay : {None},
   timeout_seconds : {None},
   respect_robots_txt : {None},
   log_skipped : {None}]

NoArgs ==
  [user_agent |-> None, default_crawl_delay |-> None, min_crawl_delay |-> None,
   max_crawl_delay |-> None, timeout_seconds |-> None,
   respect_robots_txt |-> None, log_skipped |-> None]

\* make_uniq<CrawlerBindData>() value-initialises the members
ZeroBindData ==
  [urls |-> <<>>, default_crawl_delay |-> 0, min_crawl_delay |-> 0,
   max_crawl_delay |-> 0, timeout_seconds |-> 0,
   respect_robots_txt |-> FALSE, log_skipped |-> FALSE]

\* the value a named parameter leaves in its member
Given(arg, member) == IF arg = None THEN member ELSE arg[1]

\* DomainState{}
NewDomainState ==
  [last_crawl_time |-> 0, crawl_delay_seconds |-> InitialDomainDelay,
   rules |-> EmptyRules, robots_fetched |-> FALSE,
   urls_crawled |-> 0, urls_failed |-> 0, urls_skipped |-> 0]

NoCur == [index |-> 0, url |-> <<>>, domain |-> <<>>, path |-> <<>>,
          wake |-> 0, fetch_start |-> 0]

\* the keys and due times of the queue entries pushed
MaxKeys == 2
MaxDue == 2
MaxPushes == 3

\* threads calling CrawlerFunction in ConcSpec
NWorkers == 2
QKeys == 1..MaxKeys
QDues == 1..MaxDue

\* the URLs of the target table, and how often a server changes a page and
\* the crawler crawls
SUrls == {UrlAP, UrlB}
MaxVersions == 1
MaxCrawls == 3

\* the keys of the merge target, the days a merge history spans, and the
\* age in days past which a matched row is refreshed
MaxMergeKeys == 3
MaxDays == 2
StaleDays == 1
MKeys == 1..MaxMergeKeys

\* the sitemaps of a host, and the deepest level of sitemap index followed
MaxSitemaps == 7
MaxSitemapDepth == 5
Sitemaps == 1..MaxSitemaps

----------------------------------------------------------------------------
VARIABLES
  phase,                 \* "start", "bound", "bind_error", "running", "exited"
  args,                  \* the named parameters the caller passed
  bind_data,             \* CrawlerBindData
  g_shutdown_requested, g_sigint_count, g_last_sigint_time,
  handler_installed,     \* std::signal(SIGINT, SignalHandler) was called
  now,                   \* steady clock, ms
  current_url_index, domain_states,
  total_crawled, total_failed, total_skipped, total_cancelled,
  mutex,                 \* CrawlerGlobalState::mutex: 0 or the holder
  pc,                    \* where each thread is in CrawlerFunction
  finished,              \* CrawlerLocalState::finished
  cur,                   \* locals of the invocation in progress
  rows,                  \* rows returned so far, in order
  \* history, not read by the program
  fate,                  \* fate[i]: what became of urls[i] once taken
  robots_result,         \* per domain: "ok" or "failed" robots.txt fetch
  req_end,               \* per domain: end of the latest page request
  req_delay,             \* per domain: the delay the latest page request
                         \* was paced with
  gaps,                  \* pairs of consecutive page requests to one domain:
                         \* end of the earlier, start of the later, the
                         \* domain's delay, and whether the later is a retry
  last_ret,              \* per thread: how its latest invocation returned
  at_shutdown,           \* <<rows, cursor>> when the shutdown flag was set
  \* the work queue of the specification, exercised by QueueSpec only
  queue,                 \* entries, earliest due first
  qnow,                  \* the time pop_due is called with
  qlog,                  \* per key, since it was queued: the due times
                         \* pushed, and a 0 for each pop of another key
  \* the target table of the specification, exercised by StoreSpec only
  store,                 \* url -> stored row
  origin,                \* url -> what the server holds now
  sclock,                \* time of the latest crawl
  last_resp,             \* <<url, status>> of the latest response
  \* the table of CRAWLING MERGE INTO, exercised by MergeSpec only
  target,                \* key -> row
  mnow,                  \* the day
  m_src,                 \* the source relation of the latest merge
  \* sitemap discovery for one host, exercised by SitemapSpec only
  sm_phase,              \* "idle", "walking" or "done"
  sm_shape,              \* how the sitemaps of the host reference each other
  sm_stack,              \* the sitemaps still to visit: <<sitemap, depth>>
  sm_visited,            \* the sitemaps seen in this run
  sm_fetched,            \* sitemap -> the number of times it was fetched
  sm_failed,             \* the sitemaps whose fetch failed
  sm_depth               \* the deepest level fetched

sigVars == <<g_shutdown_requested, g_sigint_count, g_last_sigint_time, handler_installed>>
bindVars == <<args, bind_data>>
statVars == <<total_crawled, total_failed, total_skipped, total_cancelled>>
histVars == <<fate, robots_result, req_end, req_delay, gaps>>
qVars == <<queue, qnow, qlog>>
stVars == <<store, origin, sclock, last_resp>>
mVars == <<target, mnow, m_src>>
smVars == <<sm_phase, sm_shape, sm_stack, sm_visited, sm_fetched, sm_failed,
           sm_depth>>
compVars == <<qVars, stVars, mVars, smVars>>
vars == <<phase, args, bind_data, g_shutdown_requested, g_sigint_count,
          g_last_sigint_time, handler_installed, now, current_url_index,
          domain_states, total_crawled, total_failed, total_skipped,
          total_cancelled, mutex, pc, finished, cur, rows, fate,
          robots_result, req_end, req_delay, gaps, last_ret, at_shutdown,
          queue, qnow, qlog, store, origin, sclock, last_resp,
          target, mnow, m_src, sm_phase, sm_shape, sm_stack, sm_visited,
          sm_fetched, sm_failed, sm_depth>>

\* the state before the bind, for the threads T that will call CrawlerFunction
InitFor(T) ==
  /\ phase = "start"
  /\ args = NoArgs
  /\ bind_data = ZeroBindData
  /\ g_shutdown_requested = FALSE
  /\ g_sigint_count = 0
  /\ g_last_sigint_time = 0
  /\ handler_installed = FALSE
  /\ now = BootMs
  /\ current_url_index = 0
  /\ domain_states = <<>>
  /\ total_crawled = 0 /\ total_failed = 0 /\ total_skipped = 0 /\ total_cancelled = 0
  /\ mutex = 0
  /\ pc = [t \in T |-> "idle"]
  /\ finished = [t \in T |-> FALSE]
  /\ cur = [t \in T |-> NoCur]
  /\ rows = <<>>
  /\ fate = <<>>
  /\ robots_result = <<>>
  /\ req_end = <<>>
  /\ req_delay = <<>>
  /\ gaps = {}
  /\ last_ret = [t \in T |-> "none"]
  /\ at_shutdown = None
  /\ queue = <<>>
  /\ qnow = 0
  /\ qlog = [k \in QKeys |-> <<>>]
  /\ store = <<>>
  /\ origin = [u \in SUrls |-> [version |-> 0, touched |-> 0]]
  /\ sclock = 0
  /\ last_resp = None
  /\ target = <<>>
  /\ mnow = 0
  /\ m_src = None
  /\ sm_phase = "idle"
  /\ sm_shape = "none"
  /\ sm_stack = <<>>
  /\ sm_visited = {}
  /\ sm_fetched = [n \in Sitemaps |-> 0]
  /\ sm_failed = {}
  /\ sm_depth = 0

Init == InitFor(Threads)

----------------------------------------------------------------------------
\* CrawlerBind

\* "Set defaults"
ApplyDefaults(bd) ==
  [bd EXCEPT
     !.default_crawl_delay = IF @ = 0 THEN BuiltinDefaultDelay ELSE @,
     !.max_crawl_delay = IF @ = 0 THEN BuiltinMaxDelay ELSE @,
     !.timeout_seconds = IF @ = 0 THEN BuiltinTimeout ELSE @,
     !.respect_robots_txt = TRUE,
     !.log_skipped = TRUE]

ReadNamedParameters(a) ==
  [ZeroBindData EXCEPT
     !.default_crawl_delay = Given(a.default_crawl_delay, @),
     !.min_crawl_delay = Given(a.min_crawl_delay, @),
     !.max_crawl_delay = Given(a.max_crawl_delay, @),
     !.timeout_seconds = Given(a.timeout_seconds, @),
     !.respect_robots_txt = Given(a.respect_robots_txt, @),
     !.log_skipped = Given(a.log_skipped, @)]

\* lines 162-164 with the test removed
MissingUserAgent_Never(a) == FALSE

\* lines 162-164: !has_user_agent
MissingUserAgent(a) == a.user_agent = None

\* lines 137-220: the call is bound, its URL list being one of L
CrawlerBindFrom(L) ==
  /\ phase = "start"
  /\ \E a \in ArgSets, urls \in L :
       /\ args' = a
       /\ IF MissingUserAgent(a)
          THEN \* BinderException
               /\ phase' = "bind_error"
               /\ bind_data' = bind_data
          ELSE /\ phase' = "bound"
               /\ bind_data' = [ApplyDefaults(ReadNamedParameters(a)) EXCEPT !.urls = urls]
  /\ UNCHANGED <<sigVars, now, current_url_index, domain_states, statVars,
                 mutex, pc, finished, cur, rows, histVars, last_ret, at_shutdown>>
  /\ UNCHANGED compVars

CrawlerBind == CrawlerBindFrom(UrlLists)

\* CrawlerInitGlobal
CrawlerInitGlobal ==
  /\ phase = "bound"
  /\ phase' = "running"
  /\ g_shutdown_requested' = FALSE
  /\ g_sigint_count' = 0
  /\ handler_installed' = TRUE
  /\ UNCHANGED <<bindVars, g_last_sigint_time, now, current_url_index,
                 domain_states, statVars, mutex, pc, finished, cur, rows,
                 histVars, last_ret, at_shutdown>>
  /\ UNCHANGED compVars

----------------------------------------------------------------------------
\* SignalHandler(SIGINT)
\* line 34 without the test of the time since the previous SIGINT
ForcesExit_AnyGap(count, elapsed) == count >= 2

\* line 34: "Double Ctrl+C within 3 seconds - force exit"
ForcesExit(count, elapsed) == count >= 2 /\ elapsed < ForceExitWindow

SignalHandler ==
  /\ handler_installed
  /\ phase # "exited"
  /\ g_sigint_count < MaxSigints
  /\ LET elapsed == (now - g_last_sigint_time) \div 1000
         count == g_sigint_count + 1
     IN /\ g_sigint_count' = count
        /\ g_last_sigint_time' = now
        /\ IF ForcesExit(count, elapsed)
           THEN /\ phase' = "exited"
                /\ UNCHANGED <<g_shutdown_requested, at_shutdown>>
           ELSE /\ phase' = phase
                /\ g_shutdown_requested' = TRUE
                /\ at_shutdown' = IF g_shutdown_requested THEN at_shutdown
                                  ELSE Some(<<Len(rows), current_url_index>>)
  /\ UNCHANGED <<bindVars, handler_installed, now, current_url_index,
                 domain_states, statVars, mutex, pc, finished, cur, rows,
                 histVars, last_ret>>
  /\ UNCHANGED compVars

----------------------------------------------------------------------------
\* CrawlerFunction

\* line 248 without the test of the shutdown flag
EarlyReturn_IgnoresShutdown(t) == finished[t]

\* line 248: nothing to do for this invocation
EarlyReturn(t) == finished[t] \/ g_shutdown_requested

\* the invocation begins: the check before the lock is taken
Enter(t) ==
  /\ phase = "running"
  /\ pc[t] = "idle"
  /\ IF EarlyReturn(t)
     THEN /\ last_ret[t] # "early"
          /\ last_ret' = [last_ret EXCEPT ![t] = "early"]
          /\ pc' = pc
     ELSE /\ pc' = [pc EXCEPT ![t] = "lock"]
          /\ last_ret' = [last_ret EXCEPT ![t] = "none"]
  /\ UNCHANGED <<phase, bindVars, sigVars, now, current_url_index,
                 domain_states, statVars, mutex, finished, cur, rows,
                 histVars, at_shutdown>>
  /\ UNCHANGED compVars

\* the row of a robots skip
SkippedRow(c) ==
  [url |-> c.url, domain |-> c.domain, http_status |-> -1, body |-> Null,
   content_type |-> Null, elapsed_ms |-> 0, crawled_at |-> now,
   error |-> "robots.txt disallow"]

\* lines 307-323: what a robots skip returns
SkippedOutput(c) == IF bind_data.log_skipped THEN <<SkippedRow(c)>> ELSE <<>>

\* line 303 with the option's test negated
RobotsSkips_NegatedFlag(st, path) ==
  ~bind_data.respect_robots_txt /\ ~IsAllowed(st.rules, path)

\* line 303
RobotsSkips(st, path) == bind_data.respect_robots_txt /\ ~IsAllowed(st.rules, path)

\* lines 302-334, with ds the domain states after the robots.txt step, clock
\* the time at which the thread gets here and f the history so far
RobotsCheck(t, c, ds, clock, f) ==
  LET st == ds[c.domain] IN
  IF RobotsSkips(st, c.path)
  THEN /\ total_skipped' = total_skipped + 1
       /\ domain_states' = [ds EXCEPT ![c.domain].urls_skipped = @ + 1]
       /\ rows' = rows \o SkippedOutput(c)
       /\ last_ret' = [last_ret EXCEPT ![t] = IF SkippedOutput(c) = <<>> THEN "empty" ELSE "row"]
       /\ fate' = [f EXCEPT ![c.index] = "skipped"]
       /\ pc' = [pc EXCEPT ![t] = "idle"]
       /\ cur' = [cur EXCEPT ![t] = NoCur]
       /\ mutex' = 0
  ELSE LET elapsed == clock - st.last_crawl_time
           required_delay_ms == st.crawl_delay_seconds
           wait_time == IF elapsed < required_delay_ms
                        THEN required_delay_ms - elapsed ELSE 0
       IN /\ domain_states' = ds
          /\ cur' = [cur EXCEPT ![t] = [c EXCEPT !.wake = clock + wait_time]]
          /\ pc' = [pc EXCEPT ![t] = "wait"]
          /\ fate' = [f EXCEPT ![c.index] = "waiting"]
          /\ mutex' = t
          /\ UNCHANGED <<total_skipped, rows, last_ret>>

\* line 253 without the mutex
MutexFree_NoMutex == TRUE

\* line 253: std::lock_guard blocks until the mutex is free
MutexFree == mutex = 0

\* lines 256-260 ending the crawl after a failed fetch as well
NoMoreUrls_AfterFailure ==
  current_url_index >= Len(bind_data.urls) \/ total_failed > 0

\* lines 256-260: the test for more URLs
NoMoreUrls == current_url_index >= Len(bind_data.urls)

\* line 264 without the increment
NextIndex_Stuck(i) == i

\* line 264: global_state.current_url_index++
NextIndex(i) == i + 1

\* lines 253-273: take the lock and the next URL
Take(t) ==
  /\ phase = "running"
  /\ pc[t] = "lock"
  /\ MutexFree
  /\ IF NoMoreUrls
     THEN /\ finished' = [finished EXCEPT ![t] = TRUE]
          /\ pc' = [pc EXCEPT ![t] = "idle"]
          /\ last_ret' = [last_ret EXCEPT ![t] = "empty"]
          /\ UNCHANGED <<current_url_index, domain_states, total_skipped,
                         mutex, cur, rows, fate>>
     ELSE LET url == bind_data.urls[current_url_index + 1]
              domain == ExtractDomain(url)
              c == [NoCur EXCEPT !.index = current_url_index + 1, !.url = url,
                                 !.domain = domain, !.path = ExtractPath(url)]
              ds == IF domain \in DOMAIN domain_states THEN domain_states
                    ELSE domain_states @@ (domain :> NewDomainState)
          IN /\ current_url_index' = NextIndex(current_url_index)
             /\ finished' = finished
             /\ IF bind_data.respect_robots_txt /\ ~ds[domain].robots_fetched
                THEN \* blocked in HttpClient::Fetch(robots_url)
                     /\ mutex' = t
                     /\ domain_states' = ds
                     /\ cur' = [cur EXCEPT ![t] = c]
                     /\ pc' = [pc EXCEPT ![t] = "robots"]
                     /\ fate' = Append(fate, "robots")
                     /\ UNCHANGED <<total_skipped, rows, last_ret>>
                ELSE RobotsCheck(t, c, ds, now, Append(fate, "taken"))
  /\ UNCHANGED <<phase, bindVars, sigVars, now, total_crawled, total_failed,
                 total_cancelled, robots_result, req_end, req_delay, gaps,
                 at_shutdown>>
  /\ UNCHANGED compVars

\* lines 284-293: the delay after a robots.txt was read
SeedDelay(rules) ==
  IF rules.crawl_delay # None THEN rules.crawl_delay[1]
  ELSE bind_data.default_crawl_delay

Clamp(d) == Min2(Max2(d, bind_data.min_crawl_delay), bind_data.max_crawl_delay)

\* lines 280-293 counting the robots.txt request as the host's last fetch
OnRobotsSuccess_Stamps(st, rules) ==
  [st EXCEPT !.rules = rules, !.crawl_delay_seconds = Clamp(SeedDelay(rules)),
             !.robots_fetched = TRUE, !.last_crawl_time = now]

\* lines 280-293: robots.txt was read
OnRobotsSuccess(st, rules) ==
  [st EXCEPT !.rules = rules, !.crawl_delay_seconds = Clamp(SeedDelay(rules)),
             !.robots_fetched = TRUE]

\* lines 294-297 without marking the robots.txt as fetched
OnRobotsFailure_NotMarked(st) ==
  [st EXCEPT !.crawl_delay_seconds = bind_data.default_crawl_delay]

\* lines 294-297 without the assignment of the default delay
OnRobotsFailure_KeepsInitial(st) == [st EXCEPT !.robots_fetched = TRUE]

\* lines 294-297: robots.txt not found or error
OnRobotsFailure(st) ==
  [st EXCEPT !.crawl_delay_seconds = bind_data.default_crawl_delay,
             !.robots_fetched = TRUE]

\* lines 278-334: the robots.txt fetch returns
RobotsDone(t) ==
  /\ phase = "running"
  /\ pc[t] = "robots"
  /\ \E file \in RobotsFiles \cup {None} :
       LET c == cur[t]
           resp == FetchResponse(IF file = None THEN "notfound" ELSE "ok",
                                 RobotsMaxRetries)
           clock == now + FetchElapsed(resp)
           st == domain_states[c.domain]
           ds == [domain_states EXCEPT ![c.domain] =
                    IF resp.success THEN OnRobotsSuccess(st, file)
                    ELSE OnRobotsFailure(st)]
       IN /\ now' = clock
          /\ robots_result' = [d \in DOMAIN robots_result \cup {c.domain} |->
                                 IF d = c.domain
                                 THEN (IF resp.success THEN "ok" ELSE "failed")
                                 ELSE robots_result[d]]
          /\ RobotsCheck(t, c, ds, clock, fate)
  /\ UNCHANGED <<phase, bindVars, sigVars, current_url_index, finished,
                 total_crawled, total_failed, total_cancelled, req_end, req_delay,
                 gaps,
                 at_shutdown>>
  /\ UNCHANGED compVars

\* line 337: the check after the wait
CancelledAfterWait == g_shutdown_requested

\* lines 338-340 returning a row for the cancelled URL
CancelledOutput_Row(c) == <<SkippedRow(c)>>

\* lines 338-340: what a cancelled invocation returns
CancelledOutput(c) == <<>>

\* line 338 without the increment
CountCancelled_Never(n) == n

\* line 338: global_state.total_cancelled++
CountCancelled(n) == n + 1

\* how the latest response of domain d among the first n rows ended
RECURSIVE LastOutcome(_, _, _)
LastOutcome(rs, d, n) ==
  IF n = 0 THEN "none"
  ELSE IF rs[n].domain = d /\ rs[n].http_status # -1
       THEN (IF rs[n].error = Null THEN "success" ELSE "failure")
       ELSE LastOutcome(rs, d, n - 1)

\* the smoothed latency (alpha = 0.2, from 0) of the responses of domain d
\* among the first n rows
RECURSIVE EmaLatency(_, _, _)
EmaLatency(rs, d, n) ==
  IF n = 0 THEN 0
  ELSE LET e == EmaLatency(rs, d, n - 1)
       IN IF rs[n].domain = d /\ rs[n].http_status # -1
          THEN (2 * rs[n].elapsed_ms + 8 * e) \div 10
          ELSE e

\* lines 331-349: the crawl-delay sleep is over
Wake(t) ==
  /\ phase = "running"
  /\ pc[t] = "wait"
  /\ LET c == cur[t]
         clock == Max2(now, c.wake)
     IN /\ now' = clock
        /\ IF CancelledAfterWait
           THEN /\ total_cancelled' = CountCancelled(total_cancelled)
                /\ last_ret' = [last_ret EXCEPT ![t] = "empty"]
                /\ fate' = [fate EXCEPT ![c.index] = "cancelled"]
                /\ pc' = [pc EXCEPT ![t] = "idle"]
                /\ cur' = [cur EXCEPT ![t] = NoCur]
                /\ mutex' = 0
                /\ gaps' = gaps
                /\ req_delay' = req_delay
                /\ rows' = rows \o CancelledOutput(c)
           ELSE \* blocked in HttpClient::Fetch(url)
                /\ rows' = rows
                /\ cur' = [cur EXCEPT ![t].fetch_start = clock]
                /\ pc' = [pc EXCEPT ![t] = "fetch"]
                /\ fate' = [fate EXCEPT ![c.index] = "fetching"]
                /\ gaps' = IF c.domain \in DOMAIN req_end
                           THEN gaps \cup {[domain |-> c.domain,
                                            prev_end |-> req_end[c.domain],
                                            start |-> clock,
                                            delay |-> domain_states[c.domain].crawl_delay_seconds,
                                            retry |-> FALSE, k |-> 0,
                                            index |-> c.index,
                                            retry_after |-> 0,
                                            prior |-> LastOutcome(rows, c.domain, Len(rows)),
                                            prev_delay |-> req_delay[c.domain],
                                            ema |-> EmaLatency(rows, c.domain, Len(rows))]}
                           ELSE gaps
                /\ req_delay' = [d \in DOMAIN req_delay \cup {c.domain} |->
                                   IF d = c.domain
                                   THEN domain_states[c.domain].crawl_delay_seconds
                                   ELSE req_delay[d]]
                /\ UNCHANGED <<total_cancelled, last_ret, mutex>>
  /\ UNCHANGED <<phase, bindVars, sigVars, current_url_index, domain_states,
                 total_crawled, total_failed, total_skipped, finished,
                 robots_result, req_end, at_shutdown>>
  /\ UNCHANGED compVars

\* lines 365-374: the row of a fetched URL
ResultRow(c, resp, fetch_elapsed_ms, clock) ==
  [url |-> c.url, domain |-> c.domain, http_status |-> resp.status_code,
   body |-> IF resp.body = "" THEN Null ELSE resp.body,
   content_type |-> IF resp.content_type = "" THEN Null ELSE resp.content_type,
   elapsed_ms |-> fetch_elapsed_ms, crawled_at |-> clock,
   error |-> IF resp.error = "" THEN Null ELSE resp.error]

\* lines 365-366 behind a second test of the shutdown flag
FetchOutput_DropsOnShutdown(row) == IF g_shutdown_requested THEN <<>> ELSE <<row>>

\* lines 365-366: what the invocation returns after a fetch
FetchOutput(row) == <<row>>

\* lines 357-359 without the increment
CountCrawled_Never(n, resp) == n

\* lines 357-359: total_crawled after a fetch
CountCrawled(n, resp) == IF resp.success THEN n + 1 ELSE n

\* lines 346-347 without the assignment of max_retries
PageRetryConfig_Default == [max_retries |-> DefaultMaxRetries]

\* lines 346-347: the RetryConfig of a page fetch
PageRetryConfig == [max_retries |-> PageMaxRetries]

\* line 355 taking the start of the fetch instead
LastCrawlTime_Start(fetch_start, fetch_end) == fetch_start

\* line 355: domain_state.last_crawl_time = fetch_end
LastCrawlTime(fetch_start, fetch_end) == fetch_end

\* lines 349-374: the page fetch returns, the server behaving in one of
\* the ways B
FetchDoneFrom(t, B) ==
  /\ phase = "running"
  /\ pc[t] = "fetch"
  /\ \E b \in B :
       LET c == cur[t]
           resp == FetchResponse(b, PageRetryConfig.max_retries)
           fetch_elapsed_ms == FetchElapsed(resp)
           fetch_end == c.fetch_start + fetch_elapsed_ms
           delay == domain_states[c.domain].crawl_delay_seconds
       IN /\ now' = fetch_end
          /\ domain_states' =
               [domain_states EXCEPT
                  ![c.domain].last_crawl_time =
                     LastCrawlTime(c.fetch_start, fetch_end),
                  ![c.domain].urls_crawled = IF resp.success THEN @ + 1 ELSE @,
                  ![c.domain].urls_failed = IF resp.success THEN @ ELSE @ + 1]
          /\ total_crawled' = CountCrawled(total_crawled, resp)
          /\ total_failed' = IF resp.success THEN total_failed ELSE total_failed + 1
          /\ rows' = rows \o FetchOutput(ResultRow(c, resp, fetch_elapsed_ms, fetch_end))
          /\ fate' = [fate EXCEPT ![c.index] = IF resp.success THEN "crawled" ELSE "failed"]
          /\ req_end' = [d \in DOMAIN req_end \cup {c.domain} |->
                           IF d = c.domain THEN fetch_end ELSE req_end[d]]
          /\ gaps' = gaps \cup
               {[domain |-> c.domain,
                 prev_end |-> AttemptEnd(resp, c.fetch_start, k),
                 start |-> AttemptStart(resp, c.fetch_start, k + 1),
                 delay |-> delay, retry |-> TRUE, k |-> k, index |-> c.index,
                 retry_after |-> resp.retry_after,
                 prior |-> IF k = 1 THEN LastOutcome(rows, c.domain, Len(rows))
                           ELSE "failure",
                 prev_delay |-> delay, ema |-> 0] : k \in 1..(resp.attempts - 1)}
  /\ last_ret' = [last_ret EXCEPT ![t] = "row"]
  /\ pc' = [pc EXCEPT ![t] = "idle"]
  /\ cur' = [cur EXCEPT ![t] = NoCur]
  /\ mutex' = 0
  /\ UNCHANGED <<phase, bindVars, sigVars, current_url_index, total_skipped,
                 total_cancelled, finished, robots_result, req_delay,
                 at_shutdown>>
  /\ UNCHANGED compVars

FetchDone(t) == FetchDoneFrom(t, PageBehaviours)

----------------------------------------------------------------------------
Next ==
  \/ CrawlerBind
  \/ CrawlerInitGlobal
  \/ SignalHandler
  \/ \E t \in Threads : Enter(t)
  \/ \E t \in Threads : Take(t)
  \/ \E t \in Threads : RobotsDone(t)
  \/ \E t \in Threads : Wake(t)
  \/ \E t \in Threads : FetchDone(t)

Spec == Init /\ [][Next]_vars

----------------------------------------------------------------------------
\* The same crawl when more threads than MaxThreads call CrawlerFunction,
\* for a call that passes user_agent only and a run without SIGINT

Workers == 1..NWorkers

ConcBind ==
  /\ CrawlerBind
  /\ args' = [NoArgs EXCEPT !.user_agent = Some("bot")]

ConcNext ==
  \/ ConcBind
  \/ CrawlerInitGlobal
  \/ \E t \in Workers : Enter(t)
  \/ \E t \in Workers : Take(t)
  \/ \E t \in Workers : RobotsDone(t)
  \/ \E t \in Workers : Wake(t)
  \/ \E t \in Workers : FetchDone(t)

ConcSpec == InitFor(Workers) /\ [][ConcNext]_vars

----------------------------------------------------------------------------
\* The crawl of a call that passes user_agent only, without SIGINT, against
\* servers that may also be slow or answer 429 with Retry-After

HttpFetchDone(t) == FetchDoneFrom(t, HttpBehaviours)

HttpNext ==
  \/ ConcBind
  \/ CrawlerInitGlobal
  \/ \E t \in Threads : Enter(t)
  \/ \E t \in Threads : Take(t)
  \/ \E t \in Threads : RobotsDone(t)
  \/ \E t \in Threads : Wake(t)
  \/ \E t \in Threads : HttpFetchDone(t)

HttpSpec == Init /\ [][HttpNext]_vars

\* the same crawl when the engine keeps calling the function and every
\* fetch returns
LiveSpec == Init /\ [][HttpNext]_vars /\ WF_vars(HttpNext)

----------------------------------------------------------------------------
\* The crawl of a call that passes user_agent only, in a process where
\* SIGINT arrives and another crawl_urls() call starts meanwhile

\* lines 222-235 run for another call: what it does to the statics of
\* lines 21-23, which the two calls share
OtherCrawlInit ==
  /\ phase = "running"
  /\ g_shutdown_requested \/ g_sigint_count > 0
  /\ g_shutdown_requested' = FALSE
  /\ g_sigint_count' = 0
  /\ UNCHANGED <<phase, bindVars, g_last_sigint_time, handler_installed, now,
                 current_url_index, domain_states, statVars, mutex, pc,
                 finished, cur, rows, histVars, last_ret, at_shutdown>>
  /\ UNCHANGED compVars

TwoCrawlNext ==
  \/ ConcBind
  \/ CrawlerInitGlobal
  \/ SignalHandler
  \/ OtherCrawlInit
  \/ \E t \in Threads : Enter(t)
  \/ \E t \in Threads : Take(t)
  \/ \E t \in Threads : RobotsDone(t)
  \/ \E t \in Threads : Wake(t)
  \/ \E t \in Threads : FetchDone(t)

TwoCrawlSpec == Init /\ [][TwoCrawlNext]_vars

----------------------------------------------------------------------------
\* The crawl of a call that passes user_agent only, without SIGINT, whose
\* URLs write one host in several ways

HostBind ==
  /\ CrawlerBindFrom(HostUrlLists)
  /\ args' = [NoArgs EXCEPT !.user_agent = Some("bot")]

HostNext ==
  \/ HostBind
  \/ CrawlerInitGlobal
  \/ \E t \in Threads : Enter(t)
  \/ \E t \in Threads : Take(t)
  \/ \E t \in Threads : RobotsDone(t)
  \/ \E t \in Threads : Wake(t)
  \/ \E t \in Threads : FetchDone(t)

HostSpec == Init /\ [][HostNext]_vars

----------------------------------------------------------------------------
\* The work queue: entries unique by surt_key, earliest due first

crawlVars == <<phase, args, bind_data, g_shutdown_requested, g_sigint_count,
               g_last_sigint_time, handler_installed, now, current_url_index,
               domain_states, total_crawled, total_failed, total_skipped,
               total_cancelled, mutex, pc, finished, cur, rows, fate,
               robots_result, req_end, req_delay, gaps, last_ret, at_shutdown>>

QEntry(k, d) == [surt_key |-> k, earliest_due_at |-> d]

QHas(q, k) == \E i \in 1..Len(q) : q[i].surt_key = k

QDue(q, k) == q[CHOOSE i \in 1..Len(q) : q[i].surt_key = k].earliest_due_at

QRemove(q, k) == SelectSeq(q, LAMBDA e : e.surt_key # k)

\* e goes behind the entries due no later than it
QInsert(q, e) ==
  LET n == Cardinality({i \in 1..Len(q) :
                          q[i].earliest_due_at <= e.earliest_due_at})
  IN SubSeq(q, 1, n) \o <<e>> \o SubSeq(q, n + 1, Len(q))

\* push that lets the entry pushed last replace the queued one
Push_KeepsLast(q, e) ==
  IF QHas(q, e.surt_key) THEN QInsert(QRemove(q, e.surt_key), e)
  ELSE QInsert(q, e)

\* push(entry): dedup by surt_key, keep the earlier due time
Push(q, e) ==
  IF QHas(q, e.surt_key)
  THEN IF e.earliest_due_at < QDue(q, e.surt_key)
       THEN QInsert(QRemove(q, e.surt_key), e)
       ELSE q
  ELSE QInsert(q, e)

\* pop_due(now) returns an entry
HasDue(q, t) == q # <<>> /\ q[1].earliest_due_at <= t

\* pushes of the keys now queued
RECURSIVE PushCount(_)
PushCount(K) ==
  IF K = {} THEN 0
  ELSE LET k == CHOOSE x \in K : TRUE
       IN Cardinality({i \in 1..Len(qlog[k]) : qlog[k][i] # 0})
            + PushCount(K \ {k})

QueuePush ==
  /\ PushCount(QKeys) < MaxPushes
  /\ \E k \in QKeys, d \in QDues :
       /\ queue' = Push(queue, QEntry(k, d))
       /\ qlog' = [qlog EXCEPT ![k] = Append(@, d)]
  /\ UNCHANGED <<qnow, crawlVars, stVars, mVars, smVars>>

QueuePopDue ==
  /\ HasDue(queue, qnow)
  /\ queue' = Tail(queue)
  /\ qlog' = [k \in QKeys |->
                IF k = queue[1].surt_key THEN <<>>
                ELSE IF qlog[k] # <<>> /\ qlog[k][Len(qlog[k])] # 0
                     THEN Append(qlog[k], 0)
                     ELSE qlog[k]]
  /\ UNCHANGED <<qnow, crawlVars, stVars, mVars, smVars>>

QueueTick ==
  /\ qnow < MaxDue
  /\ qnow' = qnow + 1
  /\ UNCHANGED <<queue, qlog, crawlVars, stVars, mVars, smVars>>

QueueNext ==
  \/ QueuePush
  \/ QueuePopDue
  \/ QueueTick

QueueSpec == Init /\ [][QueueNext]_vars

----------------------------------------------------------------------------
\* The target table: one row per url, re-crawled with conditional requests

\* sha256(body), null when there is no body
ContentHash(body) == IF body = None THEN None ELSE <<"sha256", body>>

\* what the server sends for its state o
OriginBody(o) == <<"html", o.version>>
OriginETag(o) == <<"etag", o.version>>
OriginLastModified(o) == <<"lm", o.version, o.touched>>

\* step 3: conditional headers from the prior row, if there is one
ConditionalHeaders(prior) ==
  IF prior = None THEN [if_none_match |-> None]
  ELSE [if_none_match |-> Some(prior[1].etag)]

\* the server answers 304 when the ETag sent is the one it holds
OriginResponse(o, headers) ==
  IF headers.if_none_match = Some(OriginETag(o))
  THEN [status |-> 304, body |-> None, etag |-> OriginETag(o),
        last_modified |-> OriginLastModified(o)]
  ELSE [status |-> 200, body |-> OriginBody(o), etag |-> OriginETag(o),
        last_modified |-> OriginLastModified(o)]

\* the row of a response, as it is for a 200
FreshRow(resp, t) ==
  [http_status |-> resp.status, body |-> resp.body,
   content_hash |-> ContentHash(resp.body), etag |-> resp.etag,
   last_modified |-> resp.last_modified, crawled_at |-> t]

\* steps 5-6 without the reuse of the prior row
StoredRow_Overwrites(prior, resp, t) == FreshRow(resp, t)

\* steps 5-6: the row written for a response
StoredRow(prior, resp, t) ==
  IF resp.status = 304
  THEN [prior[1] EXCEPT !.crawled_at = t, !.etag = resp.etag,
                        !.last_modified = resp.last_modified]
  ELSE FreshRow(resp, t)

\* on conflict by url the existing row is updated in place
Upsert(tbl, u, row) ==
  [x \in DOMAIN tbl \cup {u} |-> IF x = u THEN row ELSE tbl[x]]

\* the server changes the page
OriginChange ==
  /\ \E u \in SUrls :
       /\ origin[u].version < MaxVersions
       /\ origin' = [origin EXCEPT ![u].version = @ + 1]
  /\ UNCHANGED <<store, sclock, last_resp, crawlVars, qVars, mVars, smVars>>

\* the server restamps the page without changing it
OriginTouch ==
  /\ \E u \in SUrls :
       /\ origin[u].touched < MaxVersions
       /\ origin' = [origin EXCEPT ![u].touched = @ + 1]
  /\ UNCHANGED <<store, sclock, last_resp, crawlVars, qVars, mVars, smVars>>

\* steps 3-7 for one url
Recrawl ==
  /\ sclock < MaxCrawls
  /\ \E u \in SUrls :
       LET prior == IF u \in DOMAIN store THEN Some(store[u]) ELSE None
           resp == OriginResponse(origin[u], ConditionalHeaders(prior))
       IN /\ sclock' = sclock + 1
          /\ store' = Upsert(store, u, StoredRow(prior, resp, sclock + 1))
          /\ last_resp' = Some(<<u, resp.status>>)
  /\ UNCHANGED <<origin, crawlVars, qVars, mVars, smVars>>

StoreNext ==
  \/ OriginChange
  \/ OriginTouch
  \/ Recrawl

StoreSpec == Init /\ [][StoreNext]_vars

----------------------------------------------------------------------------
\* CRAWLING MERGE INTO target USING src ON (src.url = target.url)

\* the source relation for the keys S, selected on day d
SourceRows(S, d) ==
  [k \in S |-> [doc |-> <<"doc", k, d>>, crawled_at |-> d]]

\* WHEN MATCHED AND age(target.crawled_at) > INTERVAL '24 hours'
MatchedPredicate(row, d) == d - row.crawled_at > StaleDays

\* THEN UPDATE BY NAME: the columns the source names
UpdateByName(row, srow) ==
  [row EXCEPT !.doc = srow.doc, !.crawled_at = srow.crawled_at]

\* THEN INSERT BY NAME: is_deleted takes its default
InsertByName(srow) ==
  [doc |-> srow.doc, crawled_at |-> srow.crawled_at, is_deleted |-> FALSE]

\* THEN UPDATE SET is_deleted = true
Tombstone(row) == [row EXCEPT !.is_deleted = TRUE]

\* the merge without its NOT MATCHED BY SOURCE clause
MergeInto_NoTombstone(tgt, src, d) ==
  [k \in DOMAIN tgt \cup DOMAIN src |->
     IF k \in DOMAIN tgt /\ k \in DOMAIN src
     THEN IF MatchedPredicate(tgt[k], d) THEN UpdateByName(tgt[k], src[k])
          ELSE tgt[k]
     ELSE IF k \in DOMAIN src THEN InsertByName(src[k])
     ELSE tgt[k]]

\* the three clauses, each key taking the first one that applies to it
MergeInto(tgt, src, d) ==
  [k \in DOMAIN tgt \cup DOMAIN src |->
     IF k \in DOMAIN tgt /\ k \in DOMAIN src
     THEN IF MatchedPredicate(tgt[k], d) THEN UpdateByName(tgt[k], src[k])
          ELSE tgt[k]
     ELSE IF k \in DOMAIN src THEN InsertByName(src[k])
     ELSE Tombstone(tgt[k])]

\* one merge statement, as a single operation
Merge ==
  /\ \E S \in SUBSET MKeys :
       /\ target' = MergeInto(target, SourceRows(S, mnow), mnow)
       /\ m_src' = Some(SourceRows(S, mnow))
  /\ UNCHANGED <<mnow, crawlVars, qVars, stVars, smVars>>

\* a day passes
MergeDay ==
  /\ mnow < MaxDays
  /\ mnow' = mnow + 1
  /\ m_src' = None
  /\ UNCHANGED <<target, crawlVars, qVars, stVars, smVars>>

MergeNext ==
  \/ Merge
  \/ MergeDay

MergeSpec == Init /\ [][MergeNext]_vars

----------------------------------------------------------------------------
\* Sitemap discovery: robots.txt, then the sitemaps and sitemap indices

\* the ways the sitemaps of a host reference each other: a chain of indices
\* longer than the depth cap, a cycle of three indices, an index that lists
\* itself, and two indices that list the same child
SitemapShapes == {"chain", "cycle", "self", "shared"}

\* the child sitemaps the sitemap n lists; none for a urlset
Children(shape, n) ==
  CASE shape = "chain" -> IF n < MaxSitemaps THEN <<n + 1>> ELSE <<>>
    [] shape = "cycle" -> IF n <= 3 THEN <<(n % 3) + 1>> ELSE <<>>
    [] shape = "self" -> IF n = 1 THEN <<1, 2>> ELSE <<>>
    [] shape = "shared" -> IF n = 1 THEN <<2, 3>>
                           ELSE IF n \in {2, 3} THEN <<4>> ELSE <<>>
    [] OTHER -> <<>>

\* the entries of the stack for the children cs, one level below depth d
Below(cs, d) == [i \in 1..Len(cs) |-> <<cs[i], d + 1>>]

\* duplicate child sitemaps without the record of the visited ones
SeenBefore_Never(n) == FALSE

\* duplicate child sitemaps are visited once per run
SeenBefore(n) == n \in sm_visited

\* recursion depth cap: the children of a sitemap at depth d are followed
MayDescend(d) == d < MaxSitemapDepth

\* the sitemaps a robots.txt can name
RobotsSitemaps == {<<>>, <<1>>, <<2>>, <<3, 2>>}

\* steps 1-2: robots.txt was read; the walk starts from its Sitemap: entries
\* and from /sitemap.xml
SitemapStart ==
  /\ sm_phase = "idle"
  /\ \E shape \in SitemapShapes : sm_shape' = shape
  /\ \E named \in RobotsSitemaps : sm_stack' = Below(named \o <<1>>, -1)
  /\ sm_phase' = "walking"
  /\ UNCHANGED <<sm_visited, sm_fetched, sm_failed, sm_depth>>
  /\ UNCHANGED <<crawlVars, qVars, stVars, mVars>>

\* step 3 for the next sitemap: fetch and parse it unless it was seen, and
\* follow its children; a failed sitemap is skipped
SitemapStep ==
  /\ sm_phase = "walking"
  /\ IF sm_stack = <<>>
     THEN /\ sm_phase' = "done"
          /\ UNCHANGED <<sm_shape, sm_stack, sm_visited, sm_fetched, sm_failed,
                         sm_depth>>
     ELSE LET n == Head(sm_stack)[1]
              d == Head(sm_stack)[2]
          IN /\ UNCHANGED <<sm_phase, sm_shape>>
             /\ IF SeenBefore(n)
                THEN /\ sm_stack' = Tail(sm_stack)
                     /\ UNCHANGED <<sm_visited, sm_fetched, sm_failed, sm_depth>>
                ELSE /\ sm_visited' = sm_visited \cup {n}
                     /\ sm_fetched' = [sm_fetched EXCEPT ![n] = @ + 1]
                     /\ sm_depth' = Max2(sm_depth, d)
                     /\ \E ok \in BOOLEAN :
                          IF ok
                          THEN /\ sm_failed' = sm_failed
                               /\ sm_stack' =
                                    IF MayDescend(d)
                                    THEN Below(Children(sm_shape, n), d)
                                           \o Tail(sm_stack)
                                    ELSE Tail(sm_stack)
                          ELSE /\ sm_failed' = sm_failed \cup {n}
                               /\ sm_stack' = Tail(sm_stack)
  /\ UNCHANGED <<crawlVars, qVars, stVars, mVars>>

SitemapNext ==
  \/ SitemapStart
  \/ SitemapStep

\* a walk that has begun goes on: nothing blocks the next fetch for good
SitemapSpec == Init /\ [][SitemapNext]_vars /\ WF_vars(SitemapStep)

----------------------------------------------------------------------------
\* Properties

\* positions of the URL list taken so far
Taken == 1..Len(fate)
UrlAt(i) == bind_data.urls[i]
DomainAt(i) == ExtractDomain(UrlAt(i))
PathAt(i) == ExtractPath(UrlAt(i))

\* positions for which a page request was issued
Requested == {i \in Taken : fate[i] \in {"fetching", "crawled", "failed"}}
Skipped == {i \in Taken : fate[i] = "skipped"}
SkipRows == {k \in 1..Len(rows) : rows[k].http_status = -1}

\* the error_type column of a row; the rows of crawl_urls() have none
ErrorType(r) == IF "error_type" \in DOMAIN r THEN r.error_type ELSE Null

\* C1: per-host pacing. Of any two consecutive page requests to one host,
\* retries included, the later starts no earlier than the end of the earlier
\* plus the host's crawl delay.
C1_PerHostPacing == \A g \in gaps : g.start >= g.prev_end + g.delay

\* C2: robots respect. No page request is ever issued for a URL whose path
\* the robots rules obtained for its host disallow.
C2_RobotsRespect ==
  \A i \in Requested : IsAllowed(domain_states[DomainAt(i)].rules, PathAt(i))

\* a disallowed URL was skipped, and another URL was requested
C2_Witness ==
  /\ \E i \in Skipped : ~IsAllowed(domain_states[DomainAt(i)].rules, PathAt(i))
  /\ \E i \in Requested : fate[i] = "crawled"

\* C3: with log_skipped true, each robots-disallowed URL yields exactly one
\* row, with http_status = -1, error_type = robots_disallowed and null body.
C3_SkipRow ==
  bind_data.log_skipped =>
    /\ Cardinality(SkipRows) = Cardinality(Skipped)
    /\ \A k \in SkipRows : /\ ErrorType(rows[k]) = "robots_disallowed"
                           /\ rows[k].body = Null

\* C4: when the caller passes log_skipped = false, a robots-disallowed URL
\* yields no row.
C4_SilentSkip == args.log_skipped = Some(FALSE) => SkipRows = {}

\* C5: when the caller passes respect_robots_txt = false, no URL is skipped
\* as disallowed and no robots.txt decides anything: every URL taken is
\* requested.
C5_AllowAll ==
  args.respect_robots_txt = Some(FALSE) =>
    /\ Skipped = {}
    /\ total_skipped = 0

\* what holds of a host whose robots.txt fetch failed
RobotsFailureAllowsAll ==
  \A d \in DOMAIN robots_result :
    robots_result[d] = "failed" =>
      /\ domain_states[d].crawl_delay_seconds = bind_data.default_crawl_delay
      /\ \A p \in {ExtractPath(u) : u \in UrlUniverse} :
           ~RobotsSkips(domain_states[d], p)
      /\ \A i \in Taken :
           DomainAt(i) = d =>
             fate[i] \in {"waiting", "fetching", "crawled", "failed", "cancelled"}
      /\ phase \in {"running", "exited"}

\* C6: when the robots.txt fetch of a host failed, no URL of the host is
\* skipped as disallowed, the host's delay is default_crawl_delay, and the
\* URL being processed goes on to its wait and fetch.
C6_RobotsFailure == []RobotsFailureAllowsAll

\* a URL of a host whose robots.txt failed was crawled, under a
\* default_crawl_delay other than the delay a new host state starts with
C6_Witness ==
  \E i \in Taken :
    /\ DomainAt(i) \in DOMAIN robots_result
    /\ robots_result[DomainAt(i)] = "failed"
    /\ fate[i] = "crawled"
    /\ bind_data.default_crawl_delay # InitialDomainDelay

\* C7: the delay a host is paced with lies in [min_crawl_delay,
\* max_crawl_delay], whatever the robots.txt outcome.
C7_DelayInBounds ==
  \A t \in Threads :
    pc[t] \in {"wait", "fetch"} =>
      LET delay == domain_states[cur[t].domain].crawl_delay_seconds
      IN bind_data.min_crawl_delay <= delay /\ delay <= bind_data.max_crawl_delay

\* the clamp of the options table: [min_crawl_delay, max_crawl_delay] with
\* 0.0 and 60.0 when not passed
ArgClamp(d) ==
  Min2(Max2(d, Given(args.min_crawl_delay, 0)),
       Given(args.max_crawl_delay, BuiltinMaxDelay))

\* C8: for a host whose robots.txt has no Crawl-delay the seed delay is the
\* default_crawl_delay the caller passed, 0 included (clamped as every seed
\* is), and the built-in 1.0 s only when the option was not passed.
C8_SeedIsDefault ==
  \A d \in DOMAIN robots_result :
    (robots_result[d] = "ok" /\ domain_states[d].rules.crawl_delay = None) =>
      domain_states[d].crawl_delay_seconds =
        ArgClamp(Given(args.default_crawl_delay, BuiltinDefaultDelay))

\* C9: once the shutdown flag is set, an invocation that begins returns no
\* row and leaves the cursor alone, and at most one more URL is taken and at
\* most one more row returned than at the moment the flag was set.
C9_NoNewWork ==
  /\ [](at_shutdown # None =>
          /\ Len(rows) <= at_shutdown[1][1] + 1
          /\ current_url_index <= at_shutdown[1][2] + 1)
  /\ [][\A t \in Threads :
          (g_shutdown_requested /\ pc[t] = "idle") =>
             /\ pc'[t] = "idle"
             /\ rows' = rows
             /\ current_url_index' = current_url_index]_vars

\* an invocation returned at once because of the flag, with URLs left
C9_Witness ==
  \E t \in Threads :
    /\ g_shutdown_requested
    /\ last_ret[t] = "early"
    /\ ~finished[t]
    /\ current_url_index < Len(bind_data.urls)

\* C10: a fetch in flight when the flag is set still returns its row, and no
\* step removes or alters a row already returned.
C10_InFlightCompletes ==
  [][/\ Len(rows') >= Len(rows)
     /\ SubSeq(rows', 1, Len(rows)) = rows
     /\ \A t \in Threads :
          (g_shutdown_requested /\ pc[t] = "fetch" /\ pc'[t] # "fetch") =>
             /\ Len(rows') = Len(rows) + 1
             /\ rows'[Len(rows')].url = cur[t].url
             /\ rows'[Len(rows')].http_status # -1]_vars

\* a fetch row was returned after the flag was set
C10_Witness ==
  /\ at_shutdown # None
  /\ Len(rows) = at_shutdown[1][1] + 1
  /\ rows[Len(rows)].http_status # -1

\* C11: double interrupt. During a crawl, an interrupt that arrives less
\* than 3 seconds after the previous one ends the process at once, and one
\* that arrives 3 seconds or more after the previous one does not: it only
\* sets the shutdown flag (again).
C11_DoubleInterrupt ==
  [][(phase = "running" /\ g_sigint_count >= 1
        /\ g_sigint_count' = g_sigint_count + 1) =>
       IF now - g_last_sigint_time < ForceExitWindow * 1000
       THEN phase' = "exited" /\ rows' = rows
       ELSE phase' = "running" /\ g_shutdown_requested' = TRUE]_vars

\* a second interrupt 3 s or more after the first left the process alive,
\* and a third one right after the second ended it
C11_Witness == phase = "exited" /\ g_sigint_count = 3

\* positions of the URL list that have a row or a silent skip: nothing is
\* left to do for them
Terminal == {i \in Taken : fate[i] \in {"crawled", "failed", "skipped"}}

\* positions still to be processed: never taken, or taken and cancelled
Pending == (1..Len(bind_data.urls)) \ Terminal

\* the positions a fresh run of the same call works through: the global
\* state is rebuilt with the cursor at 0 and nothing else survives a run
FreshRunUrls == 1..Len(bind_data.urls)

\* one interrupt was received and every thread has returned for good
DrainComplete ==
  /\ phase = "running"
  /\ g_shutdown_requested
  /\ g_sigint_count = 1
  /\ \A t \in Threads : pc[t] = "idle" /\ last_ret[t] = "early"

\* C12: shutdown atomicity. After the drain that follows a single interrupt,
\* nothing is pending or the URLs a fresh run resumes with are exactly the
\* pending ones.
C12_ShutdownAtomicity ==
  DrainComplete => (Pending = {} \/ FreshRunUrls = Pending)

\* C13: a call without user_agent fails in the bind, and then no crawl state
\* exists: no global state, no signal handler, no HTTP request, no row.
C13_BindFails ==
  (phase # "start" /\ args.user_agent = None) =>
    /\ phase = "bind_error"
    /\ ~handler_installed
    /\ current_url_index = 0 /\ domain_states = <<>>
    /\ total_crawled + total_failed + total_skipped + total_cancelled = 0
    /\ \A t \in Threads : pc[t] = "idle" /\ last_ret[t] = "none"
    /\ fate = <<>> /\ robots_result = <<>> /\ req_end = <<>> /\ now = BootMs
    /\ rows = <<>>

\* the bind of a call without user_agent has failed
C13_Witness == phase = "bind_error" /\ args.user_agent = None

\* positions of the URL list whose processing ended with a row
RowPositions ==
  {i \in Taken : \/ fate[i] \in {"crawled", "failed"}
                 \/ fate[i] = "skipped" /\ bind_data.log_skipped}

\* the position the k-th row belongs to: rows are returned in cursor order
NthRowPosition(k) ==
  CHOOSE i \in RowPositions : Cardinality({j \in RowPositions : j <= i}) = k

\* the responses a page fetch can end with
PageResponses == {FetchResponse(b, PageMaxRetries) : b \in PageBehaviours}

\* the rows against the URLs whose processing ended with a row
TerminalRows ==
  /\ Len(rows) = Cardinality(RowPositions)
  /\ \A k \in 1..Len(rows) :
       LET r == rows[k]
           i == NthRowPosition(k)
       IN /\ r.url = UrlAt(i)
          /\ CASE fate[i] = "skipped" ->
                    r.http_status = -1 /\ r.error # Null /\ r.body = Null
               [] fate[i] = "crawled" ->
                    /\ r.error = Null
                    /\ \E resp \in PageResponses :
                         resp.success /\ r.http_status = resp.status_code
               [] fate[i] = "failed" ->
                    /\ r.error # Null
                    /\ \E resp \in PageResponses :
                         /\ ~resp.success /\ r.http_status = resp.status_code
                         /\ resp.attempts = PageMaxRetries + 1
                         /\ r.elapsed_ms = FetchElapsed(resp)

C15_SourceDedup ==
  \A u \in UrlUniverse :
    /\ Cardinality({i \in Requested : UrlAt(i) = u}) <= 1
    /\ Cardinality({k \in 1..Len(rows) : rows[k].url = u}) <= 1

\* the due times pushed for key k since it was queued
PushedDues(k) == {qlog[k][i] : i \in 1..Len(qlog[k])} \ {0}

SetMin(S) == CHOOSE x \in S : \A y \in S : x <= y

\* C16: queue idempotence. However often a key is pushed while it is queued,
\* in any order of the due times and with pushes and pops of other keys in
\* between, the queue holds exactly one entry for it, due at the minimum of
\* the due times pushed.
C16_QueueIdempotence ==
  \A k \in QKeys :
    /\ Cardinality({i \in 1..Len(queue) : queue[i].surt_key = k})
         = (IF PushedDues(k) = {} THEN 0 ELSE 1)
    /\ PushedDues(k) # {} => QDue(queue, k) = SetMin(PushedDues(k))

\* a key was pushed, another key was popped, and the first key was pushed
\* again with an earlier due time
C16_Witness ==
  \E k \in QKeys :
    /\ Len(qlog[k]) = 3
    /\ qlog[k][2] = 0
    /\ 0 < qlog[k][3] /\ qlog[k][3] < qlog[k][1]
    /\ QDue(queue, k) = qlog[k][3]

\* HTTP requests in flight, to one domain and in all
InFlight(d) ==
  Cardinality({t \in DOMAIN pc : pc[t] \in {"robots", "fetch"} /\ cur[t].domain = d})
InFlightTotal == Cardinality({t \in DOMAIN pc : pc[t] \in {"robots", "fetch"}})

\* the values of the two caps: the least a cap can be and the defaults of
\* the options table
PerDomainCaps == {1, MaxParallelPerDomain}
TotalCaps == {1, MaxTotalConnections}

\* C17: concurrency caps. Whatever the caps and however many threads call
\* the crawl step, the fetches in flight to one host never exceed
\* max_parallel_per_domain and the fetches in flight never exceed
\* max_total_connections.
C17_ConcurrencyCaps ==
  \A max_parallel_per_domain \in PerDomainCaps, max_total_connections \in TotalCaps :
    /\ \A t \in DOMAIN pc :
         pc[t] \in {"robots", "fetch"} =>
           InFlight(cur[t].domain) <= max_parallel_per_domain
    /\ InFlightTotal <= max_total_connections

\* one thread has a fetch in flight while another waits for the lock
C17_Witness ==
  \E t, u \in DOMAIN pc : t # u /\ pc[t] = "fetch" /\ pc[u] = "lock"

\* thread t is suspended: in the robots.txt fetch, in the page fetch, or in a
\* crawl-delay sleep that has time left
Suspended(t) ==
  \/ pc[t] \in {"robots", "fetch"}
  \/ pc[t] = "wait" /\ cur[t].wake > now

\* C18: no thread is suspended while it holds the lock that protects the
\* shared cursor.
C18_NoSuspendUnderLock == \A t \in DOMAIN pc : Suspended(t) => mutex # t

\* C19: a shutdown request that arrives during a crawl-delay sleep is seen
\* within one sleep slice of at most 100 ms: a thread that is in its sleep
\* when the flag is set leaves the sleep no later than 100 ms after.
C19_SlicedSleep ==
  [][\A t \in DOMAIN pc :
       (pc[t] = "wait" /\ g_shutdown_requested /\ pc'[t] # "wait") =>
          now' <= now + 100]_vars

\* rows by kind
SuccessRows == {k \in 1..Len(rows) : rows[k].http_status # -1 /\ rows[k].error = Null}
FailureRows == {k \in 1..Len(rows) : rows[k].http_status # -1 /\ rows[k].error # Null}

\* C20: the progress counters never decrease during a run, and at every
\* moment they account for at least every row already returned.
C20_Counters ==
  /\ [](/\ total_crawled >= Cardinality(SuccessRows)
        /\ total_failed >= Cardinality(FailureRows)
        /\ total_skipped >= Cardinality(SkipRows)
        /\ total_cancelled >= 0)
  /\ [][/\ total_crawled' >= total_crawled
        /\ total_failed' >= total_failed
        /\ total_skipped' >= total_skipped
        /\ total_cancelled' >= total_cancelled]_vars

\* a crawled URL and a skipped URL have their rows and are counted
C20_Witness ==
  /\ total_crawled = 1 /\ total_skipped = 1
  /\ Cardinality(SuccessRows) = 1 /\ Cardinality(SkipRows) = 1

\* C21: adaptive delay. When the smoothed latency of a host exceeds 2000 ms
\* after a response, the next request to the host is paced with double the
\* delay the previous one was paced with, capped at max_crawl_delay.
C21_AdaptiveDelay ==
  \A g \in gaps :
    (~g.retry /\ g.ema > 2000) =>
       /\ g.delay = Min2(2 * g.prev_delay, bind_data.max_crawl_delay)
       /\ g.start >= g.prev_end + g.delay

\* fib(k): 1, 1, 2, 3, 5, 8, ...
RECURSIVE Fib(_)
Fib(k) == IF k <= 2 THEN 1 ELSE Fib(k - 1) + Fib(k - 2)

\* C22: Fibonacci backoff. The k-th consecutive retryable failure is
\* followed by a backoff of fib(k) seconds, capped at
\* max_retry_backoff_seconds.
C22_FibonacciBackoff ==
  \A g \in gaps :
    (g.retry /\ g.retry_after = 0) =>
       g.start - g.prev_end = Min2(Fib(g.k), MaxRetryBackoffSeconds) * 1000

Attempts(i) == 1 + Cardinality({g \in gaps : g.retry /\ g.index = i})

\* the attempts of each page fetch, and the row of each failed one
BoundedRetries ==
  /\ Len(rows) = Cardinality(RowPositions)
  /\ \A i \in Taken :
       fate[i] \in {"crawled", "failed"} =>
         /\ Attempts(i) <= PageMaxRetries + 1
         /\ fate[i] = "failed" =>
              /\ Attempts(i) = PageMaxRetries + 1
              /\ \E k \in 1..Len(rows) :
                   /\ NthRowPosition(k) = i
                   /\ rows[k].url = UrlAt(i)
                   /\ rows[k].error # Null
                   /\ rows[k].http_status # -1

\* C25: bounded retries. No URL is attempted more than max_retries + 1 times
\* (max_retries = 3 for a page); a URL that failed on every attempt has used
\* them all and has exactly one row, which carries the error.
C25_BoundedRetries == []BoundedRetries

\* a URL failed on all its attempts and has its row
C25_Witness ==
  \E i \in Taken : fate[i] = "failed" /\ Attempts(i) = PageMaxRetries + 1

\* C26: dedup after 304. A 304 response to the conditional re-crawl of a URL
\* leaves the stored content_hash and body of the URL as they were and
\* changes only crawled_at, etag and last_modified; no other row changes.
C26_DedupAfter304 ==
  [][(sclock' = sclock + 1 /\ last_resp'[1][2] = 304) =>
       LET u == last_resp'[1][1]
       IN /\ u \in DOMAIN store
          /\ store'[u] = [store[u] EXCEPT !.crawled_at = store'[u].crawled_at,
                                           !.etag = store'[u].etag,
                                           !.last_modified = store'[u].last_modified]
          /\ store'[u].content_hash = ContentHash(store'[u].body)
          /\ store'[u].body # None
          /\ \A x \in DOMAIN store \ {u} : store'[x] = store[x]]_vars

\* the latest crawl was answered 304 and brought a new Last-Modified
C26_Witness ==
  /\ last_resp # None
  /\ last_resp[1][2] = 304
  /\ store[last_resp[1][1]].crawled_at = sclock
  /\ store[last_resp[1][1]].last_modified = <<"lm", 0, 1>>
  /\ store[last_resp[1][1]].body = <<"html", 0>>

FailureDoesNotAbort ==
  /\ \A i \in Taken :
       fate[i] = "failed" =>
         \E k \in 1..Len(rows) :
           /\ NthRowPosition(k) = i
           /\ rows[k].url = UrlAt(i)
           /\ rows[k].error # Null
  /\ ((\E i \in Taken : fate[i] = "failed")
        /\ (\E t \in Threads : finished[t])
        /\ ~g_shutdown_requested)
       => \A i \in 1..Len(bind_data.urls) : i \in Terminal

\* C28: a fetch failure for one URL is reported as a row carrying the error
\* and never aborts the crawl: when the crawl ends without a shutdown
\* request, every URL of the input has been processed, the ones after a
\* failed URL included.
C28_FailureDoesNotAbort == []FailureDoesNotAbort

\* the first URL failed, the second was fetched after it, and the crawl ended
C28_Witness ==
  /\ Len(fate) = 2
  /\ fate[1] = "failed"
  /\ fate[2] = "crawled"
  /\ \E t \in Threads : finished[t]
  /\ ~g_shutdown_requested
  /\ Len(rows) >= 2

\* the time a robots.txt fetch can take
RobotsElapsed ==
  {FetchElapsed(FetchResponse(b, RobotsMaxRetries)) : b \in {"ok", "notfound"}}

\* C29: fetching a host's robots.txt is exempt from pacing in both
\* directions: the request is sent as soon as the URL is taken, without
\* waiting for the host's crawl delay, and its return leaves the host's
\* last-fetch time, which paces the page requests, as it was.
C29_RobotsExempt ==
  [][\A t \in Threads :
       /\ (pc[t] = "lock" /\ pc'[t] = "robots") => now' = now
       /\ (pc[t] = "robots" /\ pc'[t] # "robots") =>
            /\ now' - now \in RobotsElapsed
            /\ domain_states'[cur[t].domain].last_crawl_time
                 = domain_states[cur[t].domain].last_crawl_time]_vars

\* a host's robots.txt was read, and the page request that follows it starts
\* at once although the host's delay has not passed since the robots.txt
\* request: the last-fetch time is still the initial one
C29_Witness ==
  \E t \in Threads :
    /\ pc[t] = "wait"
    /\ cur[t].domain \in DOMAIN robots_result
    /\ robots_result[cur[t].domain] = "ok"
    /\ cur[t].wake = now
    /\ domain_states[cur[t].domain].last_crawl_time = 0
    /\ domain_states[cur[t].domain].crawl_delay_seconds > FetchMs

\* no sitemap is visited below the depth cap, and none is fetched twice
SitemapBounded ==
  /\ sm_depth <= MaxSitemapDepth
  /\ \A i \in 1..Len(sm_stack) : sm_stack[i][2] <= MaxSitemapDepth
  /\ \A n \in Sitemaps : sm_fetched[n] <= 1

\* C30: sitemap discovery for a host terminates for every sitemap graph,
\* sitemap indices that reference each other cyclically included: the
\* recursion depth never exceeds 5 and each child sitemap is fetched at most
\* once per run.
C30_SitemapTermination ==
  /\ []SitemapBounded
  /\ (sm_phase = "walking") ~> (sm_phase = "done")

\* the walk of a cycle of indices has ended: each index was fetched once
C30_Witness ==
  /\ sm_phase = "done"
  /\ sm_shape = "cycle"
  /\ sm_failed = {}
  /\ \A n \in 1..3 : sm_fetched[n] = 1

\* C31: for each host, robots.txt is requested at most once per crawl run
\* whether or not the request succeeded, and that request precedes the first
\* page request to the host: when a robots.txt request is sent, no robots.txt
\* request for the host has returned or is under way, and no page request
\* to the host has been sent.
C31_RobotsOnce ==
  [][\A t \in Threads :
       (pc[t] # "robots" /\ pc'[t] = "robots") =>
          /\ cur'[t].domain \notin DOMAIN robots_result
          /\ cur'[t].domain \notin DOMAIN req_delay
          /\ \A o \in Threads \ {t} :
               ~(pc[o] = "robots" /\ cur[o].domain = cur'[t].domain)]_vars

\* the robots.txt request of a host failed, and a second URL of the host
\* has gone on to its page request
C31_Witness ==
  /\ Len(fate) = 2
  /\ DomainAt(1) = DomainAt(2)
  /\ DomainAt(1) \in DOMAIN robots_result
  /\ robots_result[DomainAt(1)] = "failed"
  /\ fate[1] \in {"crawled", "failed"}
  /\ fate[2] \in {"fetching", "crawled", "failed"}

\* a host name in lower case
Lower(s) == [i \in 1..Len(s) |-> IF s[i] = "A" THEN "a" ELSE s[i]]

\* C32: host state is keyed by the lowercased host without port: two URLs
\* whose hosts differ only in letter case, or only in port, share one host
\* state, and with it one robots decision and one pacing clock.
C32_HostKey ==
  /\ \A d, e \in DOMAIN domain_states : Lower(d) = Lower(e) => d = e
  /\ \A i \in Taken : FindChar(DomainAt(i), ":", 1) = NPos

\* the cursor moves by one with each URL taken, and not otherwise
CursorSteps ==
  [][/\ current_url_index' \in {current_url_index, current_url_index + 1}
     /\ (current_url_index' = current_url_index + 1) <=> (Len(fate') = Len(fate) + 1)
     /\ Len(fate') \in {Len(fate), Len(fate) + 1}]_vars

\* once the cursor is at the end of the list, an invocation that begins
\* returns no row and takes nothing
NothingAfterEnd ==
  [][(/\ phase = "running"
      /\ current_url_index = Len(bind_data.urls)
      /\ \A t \in Threads : pc[t] \in {"idle", "lock"})
       => (rows' = rows /\ current_url_index' = current_url_index)]_vars

\* C33: for a finite input list in which every fetch returns, the crawl
\* terminates: the URL cursor increases by exactly one on each invocation
\* that takes a URL, never exceeds the list length, and once it equals the
\* list length every later invocation returns zero rows.
C33_Termination ==
  /\ [](current_url_index <= Len(bind_data.urls))
  /\ CursorSteps
  /\ NothingAfterEnd
  /\ (phase = "running") ~> (\A t \in Threads : finished[t])

\* a crawl of a full list has ended with a row for each URL
C33_Witness ==
  /\ \A t \in Threads : finished[t]
  /\ current_url_index = MaxUrls
  /\ Len(bind_data.urls) = MaxUrls
  /\ Len(rows) = MaxUrls
  /\ \E t \in Threads : last_ret[t] = "early"

\* the invocation whose step this is, if it runs under the global mutex:
\* it holds the mutex, or takes the free mutex in the step
UnderMutex(t) ==
  /\ pc'[t] # pc[t]
  /\ \A o \in Workers \ {t} : pc'[o] = pc[o] /\ cur'[o] = cur[o]
  /\ mutex = t \/ (mutex = 0 /\ pc[t] = "lock")

\* every position up to the cursor was taken once, and the invocations
\* under way are at different positions
TakenOnce ==
  /\ current_url_index = Len(fate)
  /\ current_url_index <= Len(bind_data.urls)
  /\ \A t, o \in Workers :
       (t # o /\ cur[t].index # 0) => cur[t].index # cur[o].index
  /\ \A t \in Workers : cur[t].index # 0 => cur[t].index \in Taken

\* C34: under any interleaving of concurrent invocations of the crawl step
\* every input list position is taken by exactly one invocation, none
\* skipped and none processed twice: the cursor, the host-state map and the
\* counters change only in a step of an invocation that holds the global
\* mutex.
C34_MutexGuards ==
  /\ []TakenOnce
  /\ [][(<<current_url_index, domain_states, statVars>>'
            # <<current_url_index, domain_states, statVars>>)
          => \E t \in Workers : UnderMutex(t)]_vars
  /\ [][(Len(fate') = Len(fate) + 1) =>
          /\ current_url_index' = current_url_index + 1
          /\ \E t \in Workers : UnderMutex(t) /\ cur'[t].index \in {0, Len(fate')}]_vars

\* two invocations have shared the list: one has returned the row of
\* the first position while the other, which was waiting for the mutex,
\* fetches the second
C34_Witness ==
  \E t, o \in Workers :
    /\ t # o
    /\ pc[o] = "idle" /\ last_ret[o] = "row"
    /\ pc[t] = "fetch" /\ cur[t].index = 2
    /\ fate[1] \in {"crawled", "failed"}

\* the crawl has stopped: the process has exited, or every thread has
\* returned for the last time
CrawlStopped ==
  \/ phase = "exited"
  \/ \A t \in Threads : pc[t] = "idle" /\ (finished[t] \/ last_ret[t] = "early")

\* C35: once an interrupt has set the shutdown flag during a crawl, the flag
\* stays set until that crawl has stopped; the start of another crawl in
\* the same process does not clear it.
C35_FlagStaysSet ==
  [][(phase = "running" /\ g_shutdown_requested /\ ~CrawlStopped)
       => g_shutdown_requested']_vars

\* C36: a forced process exit occurs only if at least two interrupts were
\* received since the current crawl started and the latest came less than
\* 3 seconds after the previous one; an interrupt received after the crawl
\* has finished never terminates the process.
C36_ForcedExitOnlyInCrawl ==
  [][(phase # "exited" /\ phase' = "exited") =>
       /\ g_sigint_count' >= 2
       /\ now - g_last_sigint_time < ForceExitWindow * 1000
       /\ phase = "running"
       /\ ~CrawlStopped]_vars

\* the last-fetch time of host d in the host-state map ds; a host without
\* a state has the initial one
LastFetch(ds, d) == IF d \in DOMAIN ds THEN ds[d].last_crawl_time ELSE 0

\* C37: an invocation that ends in a robots skip or in a cancellation leaves
\* the host's last-fetch time unchanged; the last-fetch time changes only
\* when a page fetch has completed, successfully or not, and is then set to
\* that fetch's end time.
C37_LastFetchFrame ==
  [][/\ \A d \in DOMAIN domain_states' :
          LastFetch(domain_states', d) # LastFetch(domain_states, d) =>
            \E t \in Threads :
              /\ pc[t] = "fetch" /\ pc'[t] = "idle" /\ cur[t].domain = d
              /\ fate'[cur[t].index] \in {"crawled", "failed"}
     /\ \A t \in Threads :
          (pc[t] = "fetch" /\ pc'[t] = "idle") =>
            /\ LastFetch(domain_states', cur[t].domain) = now'
            /\ now' = cur[t].fetch_start
                        + rows'[Len(rows')].elapsed_ms]_vars

\* a host was fetched from, and then one of its URLs ended in a robots skip
\* and another invocation in a cancellation or a skip: the last-fetch time
\* is still the end of the fetch
C37_Witness ==
  /\ Len(fate) = 2
  /\ DomainAt(1) = DomainAt(2)
  /\ fate[1] \in {"crawled", "failed"}
  /\ fate[2] \in {"skipped", "cancelled"}
  /\ domain_states[DomainAt(1)].last_crawl_time = req_end[DomainAt(1)]
  /\ domain_states[DomainAt(1)].last_crawl_time > BootMs

\* the four counters against the cursor and the fates, between invocations
CountersSumToCursor ==
  (\A t \in Threads : pc[t] \in {"idle", "lock"}) =>
     /\ total_crawled + total_failed + total_skipped + total_cancelled
          = current_url_index
     /\ total_crawled = Cardinality({i \in Taken : fate[i] = "crawled"})
     /\ total_failed = Cardinality({i \in Taken : fate[i] = "failed"})
     /\ total_skipped = Cardinality({i \in Taken : fate[i] = "skipped"})
     /\ total_cancelled = Cardinality({i \in Taken : fate[i] = "cancelled"})

\* C38: after every invocation of the crawl step, total_crawled +
\* total_failed + total_skipped + total_cancelled equals the URL cursor:
\* every URL taken from the list is counted in exactly one of the four
\* outcome counters.
C38_CountersSumToCursor == []CountersSumToCursor

\* a fetched URL and a cancelled one: both are counted
C38_Witness ==
  /\ \A t \in Threads : pc[t] = "idle"
  /\ current_url_index = 2
  /\ total_cancelled = 1
  /\ total_crawled + total_failed = 1

====
